---- MODULE Spec2Model ----
(***************************************************************************)
(* Retrieval and conversion pipelines of the papers package:               *)
(*   Entrez.search      (src/papers/entrez.py)  paginated id retrieval     *)
(*   Entrez.fetch       (src/papers/entrez.py)  per-id document download   *)
(*   XMLConverter       (src/papers/converter.py, src/papers/doc.py)       *)
(* Files are modelled by their content: the id ledger is a sequence of     *)
(* characters, so that a line that was only partly written is a state.     *)
(* The paging constants of the code (5000, 10000, 100, batch 100) are      *)
(* scaled down, keeping their order and the halving rule.                  *)
(***************************************************************************)
EXTENDS Integers, Sequences, FiniteSets, TLC

\* ---------------------------------------------------------------- bounds
MaxTotal == 5          \* largest remote result count
MaxRuns == 2           \* search calls in one behaviour
MaxKills == 1          \* process terminations in one behaviour
MaxFetchCalls == 2     \* fetch calls in one behaviour
MaxIds == 3            \* longest ids argument of fetch, and most ids in it
NumDocs == 2           \* source documents in xml_dir
MaxConvCalls == 2      \* convert_all calls in one behaviour
MaxNameLen == 3        \* longest argument of get_sanitized_filename
MaxAuthors == 1        \* most author contribs in a source document
MaxCopyIds == 3        \* longest ids argument of copy_files, and most ids in it
NumQueries == 2        \* queries searched on one Entrez object
MaxQueryTotal == 2     \* largest result count of such a query
MaxPairTotal == 2      \* largest result count with two searches at once

\* ------------------------------------------------------- program constants
InitialChunkSize == 2  \* entrez.py:177 chunk_size = 5000 (scaled)
MinChunkSize == 1      \* entrez.py:238/271 max(100, ...) (scaled)
LargeOffset == 4       \* entrez.py:188/233 retstart >= 10000 (scaled)
max_failures == 3      \* entrez.py:179
max_retries == 3       \* entrez.py:112 max_retries=3
DefaultRetmax == 1     \* entrez.py:112 retmax=1000 (scaled)
batch_size == 2        \* entrez.py:334 batch_size = 100 (scaled)
NamePrefix == 10       \* entrez.py:311 ids[:10]
ThrottleEvery == 2     \* entrez.py:386 papers_processed % 10 (scaled)
max_filename_length == 2   \* functions.py:33 max_filename_length = 100 (scaled)
HashLen == 8           \* functions.py:38 hexdigest()[:8]

None == "None"
Token == "WebEnv"
NL == "\n"
QueryKey == <<"q">>     \* Functions.get_sanitized_filename(term), one query

\* ------------------------------------------------------------------ state
VARIABLES
    total,                 \* Count the remote reports for the query
    ledgerExists, ledger,  \* <term>_ids.txt: existence and characters
    searchPc,              \* position of Entrez.search
    restart,               \* argument of the running search call
    all_ids, retstart,     \* locals of search
    web_env, chunk_size, consecutive_failures,
    search_results_file,   \* self.search_results_file (None or "set")
    startEmpty,            \* the running search began with no ledger line
    sanitized_search_term, \* self.sanitized_search_term (None or the key)
    runs, kills,           \* history counters that bound the behaviour
    retmax,                \* argument of the running search call
    total_papers,          \* local of search: the Count it has read
    reqs,                  \* history: the esearch requests of the last step
    failStreak,            \* history: requests that raised in a row
    caller_ids,            \* the explicit id list the caller has at hand
    fetchPc,               \* position of Entrez.fetch
    ids, retry_failed,     \* arguments of the running fetch call
    fetch_dir,             \* raw files: id -> "complete" | "partial"
    failed_files,          \* failure ledgers: file name -> set of ids
    failed_ids_file, failed_ids, ids_to_fetch,
    fetchIdx,              \* ids of ids_to_fetch already processed
    papers_processed,
    calls,                 \* history: number of fetch calls made
    sameArgs,              \* history: all calls had the running call's arguments
    requests,              \* history: the efetch requests of the running call
    reqCount,              \* history: efetch requests per id, all calls
    fetch_dir_exists,      \* the directory of the raw files exists
    atStart,               \* history: arguments and files as the call began
    sinceSleep,            \* history: efetch requests since the last sleep
    docKind,               \* xml_dir: stem -> how the document converts
    format,                \* XMLConverter.format
    out,                   \* artifacts: <<dir, stem, format>> -> content
    convPc,                \* position of XMLConverter.convert_all
    doc_type, remove_existing,   \* arguments of the running convert_all
    pending_files, convIdx,
    attempts,              \* history: conversions tried by the running call
    prevAttempts,          \* history: conversions tried by the call before
    convCalls, sameConvArgs,     \* history: calls made, all with equal arguments
    outAtStart,            \* history: the artifacts as the running call began
    filename,              \* argument of Functions.get_sanitized_filename
    digest,                \* hashlib.md5(filename.encode()).hexdigest()[:8]
    cache_key,             \* what get_sanitized_filename returned (<<>>: not called)
    document,              \* the parsed source document of an XmlToDoc object
    json_call,             \* the json method called on it ("none": not yet)
    paper_data,            \* what the method returned
    source_dir,            \* Files.source_dir: the ids that have a file there
    dest_dir,              \* Files.dest_dir: the ids whose file was copied
    copy_arg,              \* the ids list as the caller passed it
    copy_ids,              \* the ids list object, which copy_files mutates
    copyIdx,               \* the index of the list iterator of line 78
    copyPc,                \* position of Files.copy_files
    query_total,           \* the Count the remote reports, per query
    search_dir,            \* the id ledgers of the queries: path -> lines
    ids_file,              \* history: the ledger the last fetch call read
    last_query,            \* history: the query of the last search call
    search2Pc,             \* position of a second process running search
    retstart2,             \* its local retstart
    page2                  \* its local ids: a page received, not yet written

searchVars == <<total, ledgerExists, ledger, searchPc, restart, all_ids,
                retstart, web_env, chunk_size, consecutive_failures,
                search_results_file, startEmpty, sanitized_search_term,
                runs, kills, retmax, total_papers, reqs, failStreak>>

fetchVars == <<caller_ids, fetchPc, ids, retry_failed, fetch_dir, failed_files,
               failed_ids_file, failed_ids, ids_to_fetch, fetchIdx,
               papers_processed, calls, sameArgs, requests, reqCount,
               fetch_dir_exists, atStart, sinceSleep>>

convVars == <<docKind, format, out, convPc, doc_type, remove_existing,
              pending_files, convIdx, attempts, prevAttempts, convCalls,
              sameConvArgs, outAtStart>>

fileVars == <<source_dir, dest_dir, copy_arg, copy_ids, copyIdx, copyPc>>

objVars == <<query_total, search_dir, ids_file, last_query>>

pairVars == <<search2Pc, retstart2, page2>>

fnVars == <<filename, digest, cache_key, document, json_call, paper_data,
            fileVars, objVars, pairVars>>

vars == <<searchVars, fetchVars, convVars, fnVars>>

\* ---------------------------------------------------------------- helpers
Min(a, b) == IF a < b THEN a ELSE b
Max(a, b) == IF a > b THEN a ELSE b

DigitChar == <<"1", "2", "3", "4", "5", "6", "7", "8", "9">>

\* the i-th identifier (1-based) of the remote result list, as text: digit
\* strings, not all of one length (71, 72, 1, 74, 75, 2, ...)
RemoteId(i) ==
    IF i % 3 = 0 THEN <<DigitChar[i \div 3]>> ELSE <<"7", DigitChar[i]>>

\* the ids the remote serves for offset p (0-based) and count n
RemoteSlice(p, n) == [j \in 1..n |-> RemoteId(p + j)]

\* for id in ids: f.write(f"{id}\n")
RECURSIVE WriteLines(_)
WriteLines(ls) ==
    IF ls = <<>> THEN <<>>
    ELSE Head(ls) \o <<NL>> \o WriteLines(Tail(ls))

\* str.splitlines(): lines end at "\n"; a last line without "\n" counts
RECURSIVE SplitFrom(_, _)
SplitFrom(s, cur) ==
    IF s = <<>> THEN (IF cur = <<>> THEN <<>> ELSE <<cur>>)
    ELSE IF Head(s) = NL THEN <<cur>> \o SplitFrom(Tail(s), <<>>)
    ELSE SplitFrom(Tail(s), Append(cur, Head(s)))

SplitLines(s) == SplitFrom(s, <<>>)

\* ------------------------------------------------------------ Entrez.search
\* get_ids_from_search_file with the file read whatever restart says
LoadIgnoringRestart(rs) ==
    IF ledgerExists THEN SplitLines(ledger) ELSE <<>>

\* get_ids_from_search_file that takes an existing ledger as empty
LoadNothing(rs) == <<>>

\* get_ids_from_search_file(filepath, restart)
get_ids_from_search_file(rs) ==
    IF ledgerExists /\ ~rs THEN SplitLines(ledger) ELSE <<>>

\* the retmax arguments a caller passes: the default, and one above the
\* initial chunk size
RetmaxArgs == {DefaultRetmax, InitialChunkSize + 1}

\* history: failed requests in a row are counted up to one past max_retries
StreakCap == max_retries + 1

\* lines 133-154: set the cache key, resolve the ledger, load or remove it
SearchBegin(rs, rm) ==
    /\ searchPc \in {"idle", "done", "early", "killed"}
    /\ runs < MaxRuns
    /\ runs' = runs + 1
    /\ restart' = rs /\ retmax' = rm
    /\ total_papers' = 0 /\ reqs' = <<>> /\ failStreak' = 0
    /\ all_ids' = get_ids_from_search_file(rs)
    /\ retstart' = Len(all_ids')
    /\ IF ledgerExists /\ rs
         THEN ledgerExists' = FALSE /\ ledger' = <<>>
         ELSE UNCHANGED <<ledgerExists, ledger>>
    /\ startEmpty' = (all_ids' = <<>> /\ ledger' = <<>>)
    /\ sanitized_search_term' = QueryKey
    /\ searchPc' = "count"
    /\ UNCHANGED <<total, web_env, chunk_size, consecutive_failures,
                   search_results_file, kills>>
    /\ UNCHANGED <<fetchVars, convVars, fnVars>>

\* lines 157-160: the count request; no time.sleep lies between it and the
\* first request of the loop (lines 161-198)
CountRequest(exc) ==
    [kind |-> "count", retstart |-> 0, retmax |-> 1, usehistory |-> FALSE,
     webenv |-> None, raised |-> exc, sleep_follows |-> FALSE]

\* line 163: the Count the response carries: the total of the query, or 0
\* (a response without Count element reads as 0; and a call on another
\* database shares the ledger, whose name of line 148 holds the term only)
CountAnswers == {total, 0}

\* lines 156-167: the count request raises; search returns all_ids
SearchCountError ==
    /\ searchPc = "count"
    /\ searchPc' = "early"
    /\ reqs' = <<CountRequest(TRUE)>>
    /\ UNCHANGED <<total, ledgerExists, ledger, restart, all_ids, retstart,
                   web_env, chunk_size, consecutive_failures,
                   search_results_file, startEmpty, runs, kills>>
    /\ UNCHANGED <<sanitized_search_term, retmax, total_papers, failStreak,
                   fetchVars, convVars, fnVars>>

\* lines 156-179: the count request answers
SearchCount ==
    /\ searchPc = "count"
    /\ total_papers' \in CountAnswers
    /\ reqs' = <<CountRequest(FALSE)>>
    /\ IF total_papers' = 0
         THEN /\ searchPc' = "early"
              /\ UNCHANGED <<web_env, chunk_size, consecutive_failures>>
         ELSE /\ searchPc' = "loop"
              /\ web_env' = None
              /\ chunk_size' = InitialChunkSize
              /\ consecutive_failures' = 0
    /\ UNCHANGED <<total, ledgerExists, ledger, restart, all_ids, retstart,
                   search_results_file, startEmpty, runs, kills>>
    /\ UNCHANGED <<sanitized_search_term, retmax, failStreak, fetchVars,
                   convVars, fnVars>>

\* A response of esearch: raised or not, number of ids, WebEnv+QueryKey present
Responses(p, c) ==
    [exc : BOOLEAN, n : 0..Min(c, total - p), token : BOOLEAN]

\* lines 208-212: the fallback request is made when the first request of a
\* new session answered without WebEnv and QueryKey; r1 stands in when no
\* fallback request is made
NeedsFallback(r1) ==
    retstart < LargeOffset /\ web_env = None /\ ~r1.exc /\ ~r1.token

FallbackResponses(r1) ==
    IF NeedsFallback(r1) THEN Responses(retstart, chunk_size) ELSE {r1}

\* lines 185-221: the requests of one loop iteration and what they leave:
\* r1 answers the first request, r2 the fallback request of lines 210-212
PageOutcome(r1, r2) ==
    IF retstart >= LargeOffset
      THEN [exc |-> r1.exc, n |-> r1.n, web_env |-> web_env]
      ELSE IF web_env = None
        THEN IF r1.exc THEN [exc |-> TRUE, n |-> 0, web_env |-> web_env]
             ELSE IF r1.token
               THEN [exc |-> FALSE, n |-> r1.n, web_env |-> Token]
               ELSE [exc |-> r2.exc, n |-> r2.n, web_env |-> None]
        ELSE [exc |-> r1.exc, n |-> r1.n, web_env |-> web_env]

\* lines 186-218: the requests an iteration issues, in order; sl tells
\* whether a time.sleep (line 243, 259 or 274) runs before the next request
PageRequest(uh, we, exc, sl) ==
    [kind |-> "page", retstart |-> retstart, retmax |-> chunk_size,
     usehistory |-> uh, webenv |-> we, raised |-> exc, sleep_follows |-> sl]

\* the requests of a new session (lines 196-212): the fallback request of
\* line 210 follows the first request at once
NewSessionRequests(r1, r2) ==
    IF r1.exc \/ r1.token
      THEN <<PageRequest(TRUE, None, r1.exc, TRUE)>>
      ELSE <<PageRequest(TRUE, None, FALSE, FALSE),
             PageRequest(FALSE, None, r2.exc, TRUE)>>

\* lines 186-218 without the test of line 188 for a large offset
PageRequestsBySession(r1, r2) ==
    IF web_env = None
      THEN NewSessionRequests(r1, r2)
      ELSE <<PageRequest(TRUE, web_env, r1.exc, TRUE)>>

\* lines 186-218 with a new session asked for at every request below the
\* large offset
PageRequestsNewSession(r1, r2) ==
    IF retstart >= LargeOffset
      THEN <<PageRequest(FALSE, None, r1.exc, TRUE)>>
      ELSE NewSessionRequests(r1, r2)

PageRequests(r1, r2) ==
    IF retstart >= LargeOffset
      THEN <<PageRequest(FALSE, None, r1.exc, TRUE)>>
      ELSE IF web_env = None
        THEN NewSessionRequests(r1, r2)
        ELSE <<PageRequest(TRUE, web_env, r1.exc, TRUE)>>

\* line 182: while retstart < total_papers
LoopGuardInclusive(pos, tot) == pos <= tot
LoopGuard(pos, tot) == pos < tot

\* lines 243-244, 273-274: after a failed iteration the loop goes on
GiveUpAfterMax(cf) == IF cf + 1 >= max_failures THEN "early" ELSE "loop"
PcAfterFailure(cf) == "loop"

\* line 238 / 271
HalveChunk(c) == Max(MinChunkSize, c \div 2)

\* lines 233-239: the page size after max_failures empty pages in a row
ChunkAfterEmptyPages(pos, c) ==
    IF pos < LargeOffset THEN c ELSE HalveChunk(c)

\* line 255: retstart += len(ids)
AdvanceByChunk(pos, n, c) == pos + c
Advance(pos, n, c) == pos + n

\* lines 246-259: a page with ids
SearchPageOk ==
    /\ searchPc = "loop" /\ LoopGuard(retstart, total_papers)
    /\ \E r1 \in Responses(retstart, chunk_size) :
       \E r2 \in FallbackResponses(r1) :
         LET o == PageOutcome(r1, r2)
             page == RemoteSlice(retstart, o.n)
         IN  /\ ~o.exc /\ o.n > 0
             /\ web_env' = o.web_env
             /\ reqs' = PageRequests(r1, r2)
             /\ consecutive_failures' = 0
             /\ all_ids' = all_ids \o page
             /\ ledgerExists' = TRUE
             /\ ledger' = ledger \o WriteLines(page)
             /\ retstart' = Advance(retstart, o.n, chunk_size)
    /\ UNCHANGED <<total, searchPc, restart, chunk_size,
                   search_results_file, startEmpty, runs, kills>>
    /\ failStreak' = 0
    /\ UNCHANGED <<sanitized_search_term, retmax, total_papers, fetchVars,
                   convVars, fnVars>>

\* lines 224-244: a page without ids
SearchPageEmpty ==
    /\ searchPc = "loop" /\ LoopGuard(retstart, total_papers)
    /\ \E r1 \in Responses(retstart, chunk_size) :
       \E r2 \in FallbackResponses(r1) :
         LET o == PageOutcome(r1, r2)
         IN  /\ ~o.exc /\ o.n = 0
             /\ reqs' = PageRequests(r1, r2)
             /\ IF consecutive_failures + 1 >= max_failures
                  THEN /\ web_env' = None
                       /\ chunk_size' = ChunkAfterEmptyPages(retstart, chunk_size)
                       /\ consecutive_failures' = 0
                  ELSE /\ web_env' = o.web_env
                       /\ chunk_size' = chunk_size
                       /\ consecutive_failures' = consecutive_failures + 1
    /\ failStreak' = 0
    /\ searchPc' = PcAfterFailure(consecutive_failures)
    /\ UNCHANGED <<total, ledgerExists, ledger, restart, all_ids,
                   retstart, search_results_file, startEmpty, runs, kills>>
    /\ UNCHANGED <<sanitized_search_term, retmax, total_papers, fetchVars,
                   convVars, fnVars>>

\* lines 261-274: a request of the iteration raises
SearchPageException ==
    /\ searchPc = "loop" /\ LoopGuard(retstart, total_papers)
    /\ \E r1 \in Responses(retstart, chunk_size) :
       \E r2 \in FallbackResponses(r1) :
         LET o == PageOutcome(r1, r2)
         IN  /\ o.exc
             /\ reqs' = PageRequests(r1, r2)
             /\ IF consecutive_failures + 1 >= max_failures
                  THEN /\ web_env' = None
                       /\ consecutive_failures' = 0
                       /\ chunk_size' = HalveChunk(chunk_size)
                  ELSE /\ web_env' = o.web_env
                       /\ chunk_size' = chunk_size
                       /\ consecutive_failures' = consecutive_failures + 1
    /\ failStreak' = Min(failStreak + 1, StreakCap)
    /\ searchPc' = PcAfterFailure(consecutive_failures)
    /\ UNCHANGED <<total, ledgerExists, ledger, restart, all_ids,
                   retstart, search_results_file, startEmpty, runs, kills>>
    /\ UNCHANGED <<sanitized_search_term, retmax, total_papers, fetchVars,
                   convVars, fnVars>>

\* lines 182, 276-281: the loop ends, the results are stored
SearchReturn ==
    /\ searchPc = "loop" /\ ~LoopGuard(retstart, total_papers)
    /\ searchPc' = "done"
    /\ search_results_file' = "set"
    /\ UNCHANGED <<total, ledgerExists, ledger, restart, all_ids, retstart,
                   web_env, chunk_size, consecutive_failures, startEmpty,
                   runs, kills>>
    /\ UNCHANGED <<sanitized_search_term, retmax, total_papers, reqs,
                   failStreak, fetchVars, convVars, fnVars>>

\* the process is terminated between two steps of search
SearchKill ==
    /\ searchPc \in {"count", "loop"}
    /\ kills < MaxKills
    /\ kills' = kills + 1
    /\ searchPc' = "killed"
    /\ all_ids' = <<>> /\ retstart' = 0
    /\ web_env' = None /\ chunk_size' = InitialChunkSize
    /\ consecutive_failures' = 0
    /\ search_results_file' = None /\ sanitized_search_term' = None
    /\ total_papers' = 0 /\ reqs' = <<>> /\ failStreak' = 0
    /\ UNCHANGED <<total, ledgerExists, ledger, restart, startEmpty, runs,
                   retmax>>
    /\ UNCHANGED <<fetchVars, convVars, fnVars>>

\* lines 250-252: the process is terminated while the page is written; the
\* buffered writer has put some of the page's characters on disk
SearchKillInAppend ==
    /\ searchPc = "loop" /\ LoopGuard(retstart, total_papers)
    /\ kills < MaxKills
    /\ \E r1 \in Responses(retstart, chunk_size) :
       \E r2 \in FallbackResponses(r1) :
         LET o == PageOutcome(r1, r2)
             page == WriteLines(RemoteSlice(retstart, o.n))
         IN  /\ ~o.exc /\ o.n > 0
             /\ \E k \in 0..(Len(page) - 1) :
                  ledger' = ledger \o SubSeq(page, 1, k)
    /\ ledgerExists' = TRUE
    /\ kills' = kills + 1
    /\ searchPc' = "killed"
    /\ all_ids' = <<>> /\ retstart' = 0
    /\ web_env' = None /\ chunk_size' = InitialChunkSize
    /\ consecutive_failures' = 0
    /\ search_results_file' = None /\ sanitized_search_term' = None
    /\ total_papers' = 0 /\ reqs' = <<>> /\ failStreak' = 0
    /\ UNCHANGED <<total, restart, startEmpty, runs, retmax>>
    /\ UNCHANGED <<fetchVars, convVars, fnVars>>

\* ---------------------------------- a second process in Entrez.search
\* The same query is searched by a second process, with restart=False.  Its
\* requests are answered with ids; the pages it receives have one to
\* InitialChunkSize ids, which covers every page size it can ask for.  Its
\* request and its append are steps of their own, so that the steps of the
\* first process fall between them.

\* lines 133-179: load the ledger, read the count, enter the loop
Search2Begin ==
    /\ search2Pc = "idle"
    /\ total > 0
    /\ retstart2' = Len(get_ids_from_search_file(FALSE))
    /\ page2' = <<>>
    /\ search2Pc' = "loop"
    /\ UNCHANGED <<searchVars, fetchVars, convVars>>
    /\ UNCHANGED <<filename, digest, cache_key, document, json_call,
                   paper_data, fileVars, objVars>>

\* lines 182-221: a page request and its ids
Search2Request ==
    /\ search2Pc = "loop" /\ LoopGuard(retstart2, total)
    /\ \E n \in 1..Min(InitialChunkSize, total - retstart2) :
          page2' = RemoteSlice(retstart2, n)
    /\ search2Pc' = "write"
    /\ UNCHANGED retstart2
    /\ UNCHANGED <<searchVars, fetchVars, convVars>>
    /\ UNCHANGED <<filename, digest, cache_key, document, json_call,
                   paper_data, fileVars, objVars>>

\* lines 246-259: the page is appended to the ledger as it is then
Search2Append ==
    /\ search2Pc = "write"
    /\ ledgerExists' = TRUE
    /\ ledger' = ledger \o WriteLines(page2)
    /\ retstart2' = Advance(retstart2, Len(page2), InitialChunkSize)
    /\ page2' = <<>>
    /\ search2Pc' = "loop"
    /\ UNCHANGED <<total, searchPc, restart, all_ids, retstart, web_env,
                   chunk_size, consecutive_failures, search_results_file,
                   startEmpty, sanitized_search_term, runs, kills, retmax,
                   total_papers, reqs, failStreak>>
    /\ UNCHANGED <<fetchVars, convVars>>
    /\ UNCHANGED <<filename, digest, cache_key, document, json_call,
                   paper_data, fileVars, objVars>>

\* lines 182, 276-281: the loop of the second process ends
Search2Return ==
    /\ search2Pc = "loop" /\ ~LoopGuard(retstart2, total)
    /\ search2Pc' = "done"
    /\ UNCHANGED <<retstart2, page2>>
    /\ UNCHANGED <<searchVars, fetchVars, convVars>>
    /\ UNCHANGED <<filename, digest, cache_key, document, json_call,
                   paper_data, fileVars, objVars>>

NoPair ==
    /\ search2Pc = "idle" /\ retstart2 = 0 /\ page2 = <<>>

\* ------------------------------------------------------------- Entrez.fetch
\* "_".join(ids[:10])
RECURSIVE JoinIds(_)
JoinIds(ss) ==
    IF ss = <<>> THEN <<>>
    ELSE IF Len(ss) = 1 THEN Head(ss)
    ELSE Head(ss) \o <<"_">> \o JoinIds(Tail(ss))

\* lines 310-314: the name of the failure ledger.  Functions.get_tempfile
\* appends a hash of the name to the name, so distinct names stay distinct
FailedIdsFile(idseq) ==
    IF sanitized_search_term = None
      THEN JoinIds(SubSeq(idseq, 1, Min(NamePrefix, Len(idseq))))
      ELSE sanitized_search_term

\* lines 315-319: the failure ledger as read (no file reads as no id)
ReadFailedIds(name) ==
    IF name \in DOMAIN failed_files THEN failed_files[name] ELSE {}

\* lines 325-326: ids that have a raw file {db}_{id}.{retmode}.  The file
\* name maps back to its id for ids without "." and without "{db}_", which
\* holds of the digit strings the remote assigns
DownloadedComplete == {id \in DOMAIN fetch_dir : fetch_dir[id] = "complete"}
downloaded_ids == DOMAIN fetch_dir

RECURSIVE SelectSeq2(_, _, _, _)
SelectSeq2(seq, down, failed, retry) ==
    IF seq = <<>> THEN <<>>
    ELSE LET id == Head(seq)
             keep == IF retry THEN id \in failed /\ id \notin down
                              ELSE id \notin down /\ id \notin failed
         IN  (IF keep THEN <<id>> ELSE <<>>)
               \o SelectSeq2(Tail(seq), down, failed, retry)

\* lines 327-330 with the failure ledger ignored
IdsToFetchIgnoringFailed(idseq, down, failed, retry) ==
    SelectSeq2(idseq, down, {}, FALSE)

\* lines 327-330 with the selected ids in the opposite order
IdsToFetchReversed(idseq, down, failed, retry) ==
    LET sel == SelectSeq2(idseq, down, failed, retry)
    IN  [i \in 1..Len(sel) |-> sel[Len(sel) + 1 - i]]

\* lines 327-330
IdsToFetch(idseq, down, failed, retry) ==
    SelectSeq2(idseq, down, failed, retry)

\* lines 290-298 with the ledger read without a recorded search
ResolveIdsAnyLedger(idsArg) ==
    IF Len(idsArg) = 0 THEN SplitLines(ledger) ELSE idsArg

\* lines 290-298: ids given, or read from the ledger of the last search
ResolveIds(idsArg) ==
    IF Len(idsArg) = 0
      THEN IF search_results_file = None THEN <<>> ELSE SplitLines(ledger)
      ELSE idsArg

\* history: the call about to start repeats the arguments of all before it
SameArgs(idseq, retry) ==
    calls = 0 \/ (sameArgs /\ idseq = ids /\ retry = retry_failed)

\* history: one more efetch request for id
Requested(id) ==
    (id :> (IF id \in DOMAIN reqCount THEN reqCount[id] + 1 ELSE 1)) @@ reqCount

\* history: what the call was given and what it found on disk
CallStart(idsArg) ==
    [given |-> idsArg, results |-> search_results_file,
     dir |-> fetch_dir_exists, raw |-> fetch_dir, failed |-> failed_files]

\* lines 290-298: both ValueError exits; nothing has been touched yet
FetchRaise(idsArg, retry) ==
    /\ fetchPc \in {"idle", "done", "raised", "killed"}
    /\ calls < MaxFetchCalls
    /\ Len(ResolveIds(idsArg)) = 0
    /\ fetchPc' = "raised"
    /\ ids' = idsArg /\ retry_failed' = retry
    /\ calls' = calls + 1
    /\ sameArgs' = SameArgs(idsArg, retry)
    /\ requests' = <<>>
    /\ atStart' = CallStart(idsArg)
    /\ sinceSleep' = 0
    /\ UNCHANGED <<caller_ids, fetch_dir, failed_files, failed_ids_file,
                   failed_ids, ids_to_fetch, fetchIdx, papers_processed,
                   reqCount, fetch_dir_exists>>
    /\ UNCHANGED <<searchVars, convVars, fnVars>>

\* lines 290-338: resolve ids, read the failure ledger, select the ids
FetchBegin(idsArg, retry) ==
    /\ fetchPc \in {"idle", "done", "raised", "killed"}
    /\ calls < MaxFetchCalls
    /\ Len(ResolveIds(idsArg)) > 0
    /\ LET idseq == ResolveIds(idsArg)
           name == FailedIdsFile(idseq)
           failed == ReadFailedIds(name)
       IN  /\ ids' = idseq
           /\ failed_ids_file' = name
           /\ failed_ids' = failed
           /\ ids_to_fetch' = IdsToFetch(idseq, downloaded_ids, failed, retry)
           /\ sameArgs' = SameArgs(idseq, retry)
    /\ calls' = calls + 1
    /\ retry_failed' = retry
    /\ fetchIdx' = 0
    /\ papers_processed' = 0
    /\ requests' = <<>>
    /\ fetch_dir_exists' = TRUE
    /\ atStart' = CallStart(idsArg)
    /\ sinceSleep' = 0
    /\ fetchPc' = "loop"
    /\ UNCHANGED <<caller_ids, fetch_dir, failed_files, reqCount>>
    /\ UNCHANGED <<searchVars, convVars, fnVars>>

\* the for loops of lines 345-346: the position after one more id, and
\* whether a batch ends there
StopAtFailure(i, ok) == IF ok THEN i + 1 ELSE Len(ids_to_fetch)
NextIdx(i, ok) == i + 1

BatchEndsAt(i) == i % batch_size = 0 \/ i = Len(ids_to_fetch)

AfterId(i) == IF BatchEndsAt(i) THEN "persist" ELSE "loop"

\* lines 363, 385-387: the requests since the last sleep, after a success
\* that made the count of successes pp
SinceSleepAfterOk(pp, n) == IF pp % ThrottleEvery = 0 THEN 0 ELSE n + 1

\* lines 346-357, 363-387: one id, fetched and written
FetchOneOk ==
    /\ fetchPc = "loop" /\ fetchIdx < Len(ids_to_fetch)
    /\ LET id == ids_to_fetch[fetchIdx + 1]
       IN  /\ requests' = Append(requests, [id |-> id, ok |-> TRUE])
           /\ reqCount' = Requested(id)
           /\ fetch_dir' = (id :> "complete") @@ fetch_dir
           /\ failed_ids' = IF retry_failed /\ id \in failed_ids
                              THEN failed_ids \ {id} ELSE failed_ids
    /\ papers_processed' = papers_processed + 1
    /\ sinceSleep' = SinceSleepAfterOk(papers_processed', sinceSleep)
    /\ fetchIdx' = NextIdx(fetchIdx, TRUE)
    /\ fetchPc' = AfterId(fetchIdx')
    /\ UNCHANGED <<caller_ids, ids, retry_failed, failed_files, failed_ids_file,
                   ids_to_fetch, calls, sameArgs, fetch_dir_exists, atStart>>
    /\ UNCHANGED <<searchVars, convVars, fnVars>>

\* lines 346-348, 359-361: the request raises
FetchOneFail ==
    /\ fetchPc = "loop" /\ fetchIdx < Len(ids_to_fetch)
    /\ LET id == ids_to_fetch[fetchIdx + 1]
       IN  /\ requests' = Append(requests, [id |-> id, ok |-> FALSE])
           /\ reqCount' = Requested(id)
           /\ failed_ids' = failed_ids \cup {id}
    /\ sinceSleep' = sinceSleep + 1
    /\ fetchIdx' = NextIdx(fetchIdx, FALSE)
    /\ fetchPc' = AfterId(fetchIdx')
    /\ UNCHANGED <<caller_ids, ids, retry_failed, fetch_dir, failed_files,
                   failed_ids_file, ids_to_fetch, papers_processed, calls,
                   sameArgs, fetch_dir_exists, atStart>>
    /\ UNCHANGED <<searchVars, convVars, fnVars>>

\* lines 389-393 writing only the failed ids that this call requested
PersistAttemptedOnly(files, name, failed) ==
    IF failed # {}
      THEN (name :> (failed \cap {requests[i].id : i \in 1..Len(requests)}))
             @@ files
      ELSE files

\* lines 389-393: if failed_ids: overwrite the failure ledger
PersistFailed(files, name, failed) ==
    IF failed # {} THEN (name :> failed) @@ files ELSE files

FetchBatchEnd ==
    /\ fetchPc = "persist"
    /\ failed_files' = PersistFailed(failed_files, failed_ids_file, failed_ids)
    /\ fetchPc' = "loop"
    /\ UNCHANGED <<caller_ids, ids, retry_failed, fetch_dir, failed_ids_file, failed_ids,
                   ids_to_fetch, fetchIdx, papers_processed, calls, sameArgs,
                   requests, reqCount, fetch_dir_exists, atStart, sinceSleep>>
    /\ UNCHANGED <<searchVars, convVars, fnVars>>

\* lines 395-408: all batches done
FetchReturn ==
    /\ fetchPc = "loop" /\ fetchIdx >= Len(ids_to_fetch)
    /\ fetchPc' = "done"
    /\ UNCHANGED <<caller_ids, ids, retry_failed, fetch_dir, failed_files,
                   failed_ids_file, failed_ids, ids_to_fetch, fetchIdx,
                   papers_processed, calls, sameArgs, requests, reqCount,
                   fetch_dir_exists, atStart, sinceSleep>>
    /\ UNCHANGED <<searchVars, convVars, fnVars>>

\* what a terminated process leaves: files stay, the Entrez object is gone
ProcessGone ==
    /\ kills < MaxKills
    /\ kills' = kills + 1
    /\ fetchPc' = "killed"
    /\ failed_ids' = {} /\ ids_to_fetch' = <<>> /\ fetchIdx' = 0
    /\ papers_processed' = 0
    /\ sanitized_search_term' = None /\ search_results_file' = None
    /\ UNCHANGED <<total, ledgerExists, ledger, searchPc, restart, all_ids,
                   retstart, web_env, chunk_size, consecutive_failures,
                   startEmpty, runs, retmax, total_papers, reqs, failStreak>>
    /\ sinceSleep' = 0
    /\ UNCHANGED <<caller_ids, ids, retry_failed, failed_files,
                   failed_ids_file, calls, sameArgs, fetch_dir_exists, atStart>>
    /\ UNCHANGED <<convVars, fnVars>>

\* the process is terminated between two steps of fetch
FetchKill ==
    /\ fetchPc \in {"loop", "persist"}
    /\ ProcessGone
    /\ UNCHANGED <<fetch_dir, requests, reqCount>>

\* lines 348-353: the process is terminated after open(filepath, "wb") and
\* before the write has finished
FetchKillInWrite ==
    /\ fetchPc = "loop" /\ fetchIdx < Len(ids_to_fetch)
    /\ ProcessGone
    /\ LET id == ids_to_fetch[fetchIdx + 1]
       IN  /\ requests' = Append(requests, [id |-> id, ok |-> TRUE])
           /\ reqCount' = Requested(id)
           /\ fetch_dir' = (id :> "partial") @@ fetch_dir

FetchIdle ==
    /\ fetchPc = "idle"
    /\ ids = <<>> /\ retry_failed = FALSE
    /\ fetch_dir = <<>> /\ failed_files = <<>>
    /\ failed_ids_file = <<>> /\ failed_ids = {}
    /\ ids_to_fetch = <<>> /\ fetchIdx = 0
    /\ papers_processed = 0
    /\ calls = 0 /\ sameArgs = TRUE
    /\ requests = <<>> /\ reqCount = <<>>
    /\ fetch_dir_exists = FALSE
    /\ atStart = [given |-> <<>>, results |-> None, dir |-> FALSE,
                  raw |-> <<>>, failed |-> <<>>]
    /\ sinceSleep = 0

\* The id lists a caller passes.  fetch treats ids as opaque keys, so the
\* lists are taken up to renaming: a list uses RemoteId(k+1) only after
\* RemoteId(k).  Repeats are allowed.
IdxLists == UNION {[1..n -> 1..MaxIds] : n \in 0..MaxIds}
InOrderOfFirstUse(s) ==
    \A i \in 1..Len(s) : s[i] = 1 \/ \E j \in 1..(i - 1) : s[j] = s[i] - 1
IdArgs == {[i \in 1..Len(s) |-> RemoteId(s[i])] :
              s \in {t \in IdxLists : InOrderOfFirstUse(t)}}

\* ------------------------------------------- Functions.get_sanitized_filename
\* lines 16-22: unsafe_chars, in the order of the dict: character, replacement
\* (without the last entry, the backquote, which no name below contains)
unsafe_chars ==
    <<<<"'", <<>>>>, <<"\"", <<>>>>, <<" ", <<"_">>>>, <<":", <<"_">>>>,
      <<"[", <<"_">>>>, <<"]", <<"_">>>>, <<"/", <<"_">>>>,
      <<"\\", <<"_">>>>, <<"?", <<"_">>>>, <<"*", <<"_">>>>,
      <<"<", <<"_">>>>, <<">", <<"_">>>>, <<"|", <<"_">>>>,
      <<"+", <<"_">>>>, <<"=", <<"_">>>>, <<",", <<"_">>>>,
      <<";", <<"_">>>>, <<".", <<"_">>>>, <<"&", <<"_">>>>,
      <<"%", <<"_">>>>, <<"$", <<"_">>>>, <<"#", <<"_">>>>,
      <<"@", <<"_">>>>, <<"!", <<"_">>>>, <<"^", <<"_">>>>,
      <<"(", <<"_">>>>, <<")", <<"_">>>>, <<"{", <<"_">>>>,
      <<"}", <<"_">>>>, <<"~", <<"_">>>>>>

\* str.replace(char, replacement) on a sequence of characters
RECURSIVE Replace(_, _, _)
Replace(s, ch, by) ==
    IF s = <<>> THEN <<>>
    ELSE (IF Head(s) = ch THEN by ELSE <<Head(s)>>) \o Replace(Tail(s), ch, by)

\* lines 25-27: the replacements, one unsafe character after the other
RECURSIVE ReplaceAll(_, _)
ReplaceAll(s, k) ==
    IF k > Len(unsafe_chars) THEN s
    ELSE ReplaceAll(Replace(s, unsafe_chars[k][1], unsafe_chars[k][2]), k + 1)

\* line 30: str.strip("_")
RECURSIVE LStrip(_)
LStrip(s) == IF s # <<>> /\ Head(s) = "_" THEN LStrip(Tail(s)) ELSE s

RECURSIVE RStrip(_)
RStrip(s) ==
    IF s # <<>> /\ s[Len(s)] = "_" THEN RStrip(SubSeq(s, 1, Len(s) - 1)) ELSE s

Strip(s) == RStrip(LStrip(s))

\* lines 34-35: the term is cut to max_filename_length characters
NoTruncate(s) == s
Truncate(s) ==
    IF Len(s) > max_filename_length THEN SubSeq(s, 1, max_filename_length) ELSE s

\* lines 25-39: get_sanitized_filename(name), hash being the digest of name
get_sanitized_filename(name, hash) ==
    Truncate(Strip(ReplaceAll(name, 1))) \o <<"_">> \o hash

\* the characters a caller passes: a letter, a digit, a character that is not
\* in unsafe_chars, two that are replaced by "_", one that is removed, and "_"
NameChars == {"a", "7", "-", " ", ":", "'", "_"}

Names == UNION {[1..n -> NameChars] : n \in 0..MaxNameLen}

\* values of md5(...).hexdigest()[:8]: those of "" and of "a"
Digests == {<<"d", "4", "1", "d", "8", "c", "d", "9">>,
            <<"0", "c", "c", "1", "7", "5", "b", "9">>}

Sanitize ==
    /\ cache_key = <<>>
    /\ cache_key' = get_sanitized_filename(filename, digest)
    /\ UNCHANGED <<filename, digest, document, json_call, paper_data,
                   fileVars, objVars, pairVars>>
    /\ UNCHANGED <<searchVars, fetchVars, convVars>>

NoSanitize ==
    /\ filename = <<>>
    /\ digest = <<"d", "4", "1", "d", "8", "c", "d", "9">>
    /\ cache_key = <<>>

\* ------------------------------------- one Entrez object, several queries
Queries == 1..NumQueries

\* entrez.py line 140: the sanitized term of a query
TermKey(q) == <<"q", DigitChar[q]>>

\* line 148: f"{self.sanitized_search_term}_ids.txt"
LedgerPath(key) == key \o <<"_", "i", "d", "s", ".", "t", "x", "t">>

\* the result list of a query; no id belongs to two queries
QueryIds(q, n) == [j \in 1..n |-> RemoteId(MaxQueryTotal * (q - 1) + j)]

\* lines 47-64 on the ledgers of several queries
LoadLedger(path, rs) ==
    IF path \in DOMAIN search_dir /\ ~rs THEN search_dir[path] ELSE <<>>

\* line 62: os.remove(filepath)
RemoveLedger(path, rs) ==
    IF path \in DOMAIN search_dir /\ rs
      THEN [p \in DOMAIN search_dir \ {path} |-> search_dir[p]]
      ELSE search_dir

\* lines 165-172, 276-281: self.search_results_file after the call
ResultsFileAfter(path, early) ==
    IF early THEN search_results_file ELSE path

\* lines 133-281: a whole search call for query q that no one interrupts.
\* The count request raises or answers; a running loop ends with the ids of
\* the query on the ledger, appended after the lines it loaded
ObjSearch(q, rs, raises) ==
    /\ fetchPc \in {"idle", "done", "raised"}
    /\ runs < MaxRuns
    /\ runs' = runs + 1
    /\ last_query' = q
    /\ sanitized_search_term' = TermKey(q)
    /\ LET path == LedgerPath(TermKey(q))
           loaded == LoadLedger(path, rs)
           early == raises \/ query_total[q] = 0
           more == query_total[q] - Len(loaded)
       IN  /\ search_dir' =
                 IF early \/ more <= 0 THEN RemoveLedger(path, rs)
                 ELSE (path :> (loaded \o
                          SubSeq(QueryIds(q, query_total[q]),
                                 Len(loaded) + 1, query_total[q])))
                        @@ search_dir
           /\ search_results_file' = ResultsFileAfter(path, early)
    /\ UNCHANGED <<total, ledgerExists, ledger, searchPc, restart, all_ids,
                   retstart, web_env, chunk_size, consecutive_failures,
                   startEmpty, kills, retmax, total_papers, reqs, failStreak>>
    /\ UNCHANGED <<query_total, ids_file>>
    /\ UNCHANGED <<filename, digest, cache_key, document, json_call,
                   paper_data, fileVars, pairVars>>
    /\ UNCHANGED <<fetchVars, convVars>>

\* lines 290-298 on the ledgers of several queries: the ids of a call
\* without ids (a missing file raises in open, an empty one in line 298)
ObjResolveIds ==
    IF search_results_file = None
           \/ search_results_file \notin DOMAIN search_dir
      THEN <<>>
      ELSE search_dir[search_results_file]

\* lines 290-298: fetch without ids raises
ObjFetchRaise(retry) ==
    /\ fetchPc \in {"idle", "done", "raised"}
    /\ calls < MaxFetchCalls
    /\ Len(ObjResolveIds) = 0
    /\ calls' = calls + 1
    /\ fetchPc' = "raised"
    /\ ids' = <<>> /\ retry_failed' = retry
    /\ UNCHANGED <<caller_ids, fetch_dir, failed_files, failed_ids_file,
                   failed_ids, ids_to_fetch, fetchIdx, papers_processed,
                   sameArgs, requests, reqCount, fetch_dir_exists, atStart,
                   sinceSleep>>
    /\ UNCHANGED <<filename, digest, cache_key, document, json_call,
                   paper_data, fileVars, objVars, pairVars>>
    /\ UNCHANGED <<searchVars, convVars>>

\* lines 290-408: a whole fetch call without ids that no one interrupts;
\* of the ids it selects, those of ok are fetched and the others fail
ObjFetch(retry) ==
    /\ fetchPc \in {"idle", "done", "raised"}
    /\ calls < MaxFetchCalls
    /\ Len(ObjResolveIds) > 0
    /\ calls' = calls + 1
    /\ fetchPc' = "done"
    /\ ids_file' = search_results_file
    /\ retry_failed' = retry
    /\ fetch_dir_exists' = TRUE
    /\ LET idseq == ObjResolveIds
           name == FailedIdsFile(idseq)
           failed == ReadFailedIds(name)
           sel == IdsToFetch(idseq, downloaded_ids, failed, retry)
           todo == {sel[i] : i \in 1..Len(sel)}
       IN  /\ ids' = idseq
           /\ failed_ids_file' = name
           /\ ids_to_fetch' = sel
           /\ \E ok \in SUBSET todo :
                 /\ fetch_dir' = [id \in ok |-> "complete"] @@ fetch_dir
                 /\ failed_ids' = (IF retry THEN failed \ ok ELSE failed)
                                      \cup (todo \ ok)
                 /\ papers_processed' = Cardinality(ok)
           /\ failed_files' = IF sel = <<>> THEN failed_files
                               ELSE PersistFailed(failed_files, name, failed_ids')
    /\ UNCHANGED <<caller_ids, fetchIdx, sameArgs, requests, reqCount,
                   atStart, sinceSleep>>
    /\ UNCHANGED <<query_total, search_dir, last_query>>
    /\ UNCHANGED <<filename, digest, cache_key, document, json_call,
                   paper_data, fileVars, pairVars>>
    /\ UNCHANGED <<searchVars, convVars>>

NoObject ==
    /\ query_total = [q \in Queries |-> 0]
    /\ search_dir = <<>>
    /\ ids_file = None
    /\ last_query = 0

\* -------------------------------------------------------- Files.copy_files
\* list.remove(x): the list without its first item equal to x
RECURSIVE RemoveFirst(_, _)
RemoveFirst(seq, x) ==
    IF seq = <<>> THEN <<>>
    ELSE IF Head(seq) = x THEN Tail(seq)
    ELSE <<Head(seq)>> \o RemoveFirst(Tail(seq), x)

\* the id lists a caller passes, repeats allowed
CopyIds == {RemoteId(k) : k \in 1..MaxCopyIds}
CopyArgs == UNION {[1..n -> CopyIds] : n \in 0..MaxCopyIds}

\* files.py line 78: the for statement takes an iterator over the list
CopyBegin ==
    /\ copyPc = "idle"
    /\ copy_ids' = copy_arg
    /\ copyIdx' = 0
    /\ copyPc' = "loop"
    /\ UNCHANGED <<source_dir, dest_dir, copy_arg>>
    /\ UNCHANGED <<filename, digest, cache_key, document, json_call,
                   paper_data, objVars, pairVars>>
    /\ UNCHANGED <<searchVars, fetchVars, convVars>>

\* lines 78-84: the iterator yields the item at its index and moves on; the
\* body removes the id of a missing file from the list, or copies the file
\* (dest_dir is an existing directory, as line 30 leaves it)
CopyOne ==
    /\ copyPc = "loop" /\ copyIdx < Len(copy_ids)
    /\ LET id == copy_ids[copyIdx + 1]
       IN  IF id \notin source_dir
             THEN /\ copy_ids' = RemoveFirst(copy_ids, id)
                  /\ dest_dir' = dest_dir
             ELSE /\ copy_ids' = copy_ids
                  /\ dest_dir' = dest_dir \cup {id}
    /\ copyIdx' = copyIdx + 1
    /\ UNCHANGED <<source_dir, copy_arg, copyPc>>
    /\ UNCHANGED <<filename, digest, cache_key, document, json_call,
                   paper_data, objVars, pairVars>>
    /\ UNCHANGED <<searchVars, fetchVars, convVars>>

\* line 78: the iterator is exhausted when its index has reached the
\* length the list has then
CopyReturn ==
    /\ copyPc = "loop" /\ copyIdx >= Len(copy_ids)
    /\ copyPc' = "done"
    /\ UNCHANGED <<source_dir, dest_dir, copy_arg, copy_ids, copyIdx>>
    /\ UNCHANGED <<filename, digest, cache_key, document, json_call,
                   paper_data, objVars, pairVars>>
    /\ UNCHANGED <<searchVars, fetchVars, convVars>>

NoCopy ==
    /\ source_dir = {} /\ dest_dir = {}
    /\ copy_arg = <<>> /\ copy_ids = <<>>
    /\ copyIdx = 0 /\ copyPc = "idle"

\* ------------------------------------------------------ XmlToDoc: to json
\* A source document, as far as the extractors look at it.  Text is a
\* sequence of words or lines; None stands for an element that is absent.
Names1 == {<<>>, <<[given |-> "A", surname |-> "B"]>>,
           <<[given |-> None, surname |-> "B"]>>}

\* a contrib of type author: its name element (none or one), the text of the
\* aff elements its xrefs resolve to, the email of the corresp note its xref
\* resolves to, its own email element and its orcid
Contribs ==
    [name : Names1, affs : {<<>>, <<"Aff1">>},
     corresp_email : {None, "c@x"}, email : {None, "a@x"},
     orcid : {None, "0000"}]

\* a sec of the body: its title element and its direct paragraphs
Secs == [title : {None, "Intro"}, ps : {<<>>, <<"Hello.">>}]

\* a ref of the ref-list with a citation that has a year only
Refs == {[year |-> "2020"]}

Documents ==
    [article_title : {None, "T1"},
     contribs : UNION {[1..n -> Contribs] : n \in 0..MaxAuthors},
     abstract : {<<>>, <<"Abs.">>},
     secs : {<<>>} \cup {<<s>> : s \in Secs},
     refs : {<<>>} \cup {<<r>> : r \in Refs}]

\* doc.py lines 191-194, 33-36, 57-60: the text of the element, or ""
TextOr(elem) == IF elem = None THEN "" ELSE elem

\* line 84: f"{given} {surname}".strip(), as words
NameText(n) ==
    (IF n.given = None THEN <<>> ELSE <<n.given>>)
        \o (IF n.surname = None THEN <<>> ELSE <<n.surname>>)

\* lines 76-121 with the keys name and affiliations only
AuthorNameAndAffiliations(c) ==
    (IF c.name = <<>> THEN <<>> ELSE "name" :> NameText(c.name[1]))
        @@ ("affiliations" :> c.affs)

\* lines 76-121: the dictionary of one contrib
AuthorInfo(c) ==
    (IF c.name = <<>> THEN <<>> ELSE "name" :> NameText(c.name[1]))
        @@ ("affiliations" :> c.affs)
        @@ (IF c.corresp_email # None
              THEN ("email" :> c.corresp_email) @@ ("is_corresponding" :> TRUE)
              ELSE ("email" :> c.email) @@ ("is_corresponding" :> FALSE))
        @@ (IF c.orcid = None THEN <<>> ELSE "orcid" :> c.orcid)

\* lines 66-126: get_author_info
get_author_info(d) == [i \in 1..Len(d.contribs) |-> AuthorInfo(d.contribs[i])]

\* lines 204-230: get_body; a section without paragraph is left out
SectionTitle(s) == IF s.title = None THEN "Untitled Section" ELSE s.title

RECURSIVE get_body(_)
get_body(secs) ==
    IF secs = <<>> THEN <<>>
    ELSE LET s == Head(secs)
             rest == get_body(Tail(secs))
         IN  IF s.ps = <<>> THEN rest
             ELSE IF SectionTitle(s) \in DOMAIN rest
               THEN (SectionTitle(s) :> (s.ps \o rest[SectionTitle(s)])) @@ rest
               ELSE (SectionTitle(s) :> s.ps) @@ rest

\* lines 388-397: one reference of the list (the index counts from 0)
ReferenceData(d) ==
    [i \in 1..Len(d.refs) |->
        ("index" :> (i - 1)) @@ ("pmid" :> "N/A") @@ ("authors" :> "")
          @@ ("title" :> "") @@ ("journal" :> "") @@ ("year" :> d.refs[i].year)]

\* lines 363-399: paper_to_json.  The documents have no journal-title, no
\* pub-date and no article-id
paper_to_json(d, include_authors, include_references) ==
    ("title" :> TextOr(d.article_title))
      @@ ("journal" :> "") @@ ("publication_date" :> "") @@ ("pmc_id" :> "")
      @@ (IF include_authors THEN "authors" :> get_author_info(d) ELSE <<>>)
      @@ ("abstract" :> d.abstract)
      @@ ("body" :> get_body(d.secs))
      @@ (IF include_references THEN "references" :> ReferenceData(d) ELSE <<>>)

\* lines 363, 401-407: paper_to_json(), paper_to_json_without_metadata()
ToJson(call) ==
    /\ json_call = "none"
    /\ json_call' = call
    /\ paper_data' = paper_to_json(document, call = "paper", call = "paper")
    /\ UNCHANGED <<filename, digest, cache_key, document, fileVars,
                   objVars, pairVars>>
    /\ UNCHANGED <<searchVars, fetchVars, convVars>>

NoJson ==
    /\ document = [article_title |-> None, contribs |-> <<>>,
                   abstract |-> <<>>, secs |-> <<>>, refs |-> <<>>]
    /\ json_call = "none"
    /\ paper_data = <<>>

\* ------------------------------------------------- XMLConverter.convert_all
DocTypes == {"paper", "paper_with_metadata", "paper_without_metadata",
             "author", "references"}
Formats == {"txt", "json"}
Stems == 1..NumDocs

\* converter.py lines 75-78 and 41-46: the output directory of a doc_type
OutputDir(t) ==
    IF t \in {"paper", "paper_with_metadata", "paper_without_metadata"}
      THEN "paper_dir"
      ELSE IF t = "author" THEN "author_dir" ELSE "references_dir"

\* the stems that have an artifact in paper_dir, whatever the doc_type
ExistingStemsOfPaperDir(dir, fmt) ==
    {st \in Stems : <<"paper_dir", st, fmt>> \in DOMAIN out}

\* output_dir.glob("*.{format}"): the stems that have an artifact
ExistingStems(dir, fmt) ==
    {st \in Stems : <<dir, st, fmt>> \in DOMAIN out}

\* xml_dir.glob("*.xml"), in the directory's order
RECURSIVE XmlFiles(_)
XmlFiles(n) == IF n = 0 THEN <<>> ELSE Append(XmlFiles(n - 1), n)

\* lines 38-70 with every source file taken as pending
AllXmlFiles(files, existing, remove) == files

\* lines 38-70: _get_pending_files
PendingFiles(files, existing, remove) ==
    IF remove THEN files
    ELSE SelectSeq(files, LAMBDA st : st \notin existing)

\* lines 48-52 with no file unlinked
UnlinkedNothing(dir, fmt) == out

\* lines 48-52: the artifacts of the format in the directory are unlinked
Unlinked(dir, fmt) ==
    LET keep == {k \in DOMAIN out : ~(k[1] = dir /\ k[3] = fmt)}
    IN  [k \in keep |-> out[k]]

\* lines 73-86: select the pending files
ConvertBegin(t, remove) ==
    /\ convPc \in {"idle", "done"}
    /\ convCalls < MaxConvCalls
    /\ convCalls' = convCalls + 1
    /\ sameConvArgs' = (convCalls = 0 \/
                          (sameConvArgs /\ t = doc_type /\ remove = remove_existing))
    /\ doc_type' = t /\ remove_existing' = remove
    /\ pending_files' = PendingFiles(XmlFiles(NumDocs),
                            ExistingStems(OutputDir(t), format), remove)
    /\ out' = IF remove THEN Unlinked(OutputDir(t), format) ELSE out
    /\ convIdx' = 0
    /\ prevAttempts' = attempts
    /\ outAtStart' = out
    /\ attempts' = <<>>
    /\ convPc' = "loop"
    /\ UNCHANGED <<docKind, format>>
    /\ UNCHANGED <<searchVars, fetchVars, fnVars>>

\* doc.py lines 457-483 and 434-452: save_to_file on a parsed document.
\* For txt the file is opened for writing before the text is rendered; for
\* json the data is built before the file is opened.
save_to_file(files, key, t, fmt, renders) ==
    IF fmt = "txt"
      THEN (key :> (IF renders THEN t ELSE "empty")) @@ files
      ELSE IF renders THEN (key :> t) @@ files ELSE files

\* the for loop of line 88: the position after one more file
ConvStopAtError(i, ok) == IF ok THEN i + 1 ELSE Len(pending_files)
ConvNextIdx(i, ok) == i + 1

\* lines 113-125: one pending file
ConvertOne ==
    /\ convPc = "loop" /\ convIdx < Len(pending_files)
    /\ LET st == pending_files[convIdx + 1]
           key == <<OutputDir(doc_type), st, format>>
           ok == docKind[st] = "good"
       IN  /\ out' = IF docKind[st] = "unparsable" THEN out
                     ELSE save_to_file(out, key, doc_type, format, ok)
           /\ attempts' = Append(attempts, [stem |-> st, ok |-> ok])
           /\ convIdx' = ConvNextIdx(convIdx, ok)
    /\ UNCHANGED <<docKind, format, convPc, doc_type, remove_existing,
                   pending_files, prevAttempts, convCalls, sameConvArgs,
                   outAtStart>>
    /\ UNCHANGED <<searchVars, fetchVars, fnVars>>

\* lines 127-136: the loop is over
ConvertReturn ==
    /\ convPc = "loop" /\ convIdx >= Len(pending_files)
    /\ convPc' = "done"
    /\ UNCHANGED <<docKind, format, out, doc_type, remove_existing,
                   pending_files, convIdx, attempts, prevAttempts, convCalls,
                   sameConvArgs, outAtStart>>
    /\ UNCHANGED <<searchVars, fetchVars, fnVars>>

ConvIdle ==
    /\ out = <<>> /\ outAtStart = <<>>
    /\ convPc = "idle"
    /\ doc_type = "paper" /\ remove_existing = FALSE
    /\ pending_files = <<>> /\ convIdx = 0
    /\ attempts = <<>> /\ prevAttempts = <<>>
    /\ convCalls = 0 /\ sameConvArgs = TRUE

\* the part of the state a specification does not move
NoConversion ==
    /\ docKind = [st \in Stems |-> "good"]
    /\ format = "txt"
    /\ ConvIdle
    /\ NoSanitize
    /\ NoJson
    /\ NoCopy
    /\ NoObject
    /\ NoPair

NoRetrieval ==
    /\ total = 0
    /\ ledgerExists = FALSE /\ ledger = <<>>
    /\ searchPc = "idle"
    /\ restart = FALSE
    /\ all_ids = <<>> /\ retstart = 0
    /\ web_env = None /\ chunk_size = InitialChunkSize
    /\ consecutive_failures = 0
    /\ search_results_file = None
    /\ startEmpty = TRUE
    /\ sanitized_search_term = None
    /\ runs = 0 /\ kills = 0
    /\ retmax = DefaultRetmax /\ total_papers = 0
    /\ reqs = <<>> /\ failStreak = 0
    /\ caller_ids = <<>>
    /\ FetchIdle

\* ------------------------------------------------------- specifications
SearchInit ==
    /\ total \in 0..MaxTotal
    /\ ledgerExists = FALSE /\ ledger = <<>>
    /\ searchPc = "idle"
    /\ restart = FALSE
    /\ all_ids = <<>> /\ retstart = 0
    /\ web_env = None /\ chunk_size = InitialChunkSize
    /\ consecutive_failures = 0
    /\ search_results_file = None
    /\ startEmpty = TRUE
    /\ sanitized_search_term = None
    /\ runs = 0 /\ kills = 0
    /\ retmax = DefaultRetmax /\ total_papers = 0
    /\ reqs = <<>> /\ failStreak = 0
    /\ caller_ids = <<>>
    /\ FetchIdle
    /\ NoConversion

SearchNext ==
    \/ \E rs \in BOOLEAN, rm \in RetmaxArgs : SearchBegin(rs, rm)
    \/ SearchCountError
    \/ SearchCount
    \/ SearchPageOk
    \/ SearchPageEmpty
    \/ SearchPageException
    \/ SearchReturn
    \/ SearchKill
    \/ SearchKillInAppend

\* search with a remote that, asked again and again for a page, eventually
\* answers with ids (SearchPageOk), and a process that goes on when it can
\* return (SearchReturn); kills and new calls stay optional
SearchLiveSpec ==
    /\ SearchInit /\ [][SearchNext]_vars
    /\ WF_vars(SearchReturn)
    /\ SF_vars(SearchPageOk)

\* fetch starts on an Entrez object that has not searched, or whose search
\* has completed, or whose search returned early on an empty result
FetchInit ==
    /\ total \in 0..MaxIds
    /\ caller_ids \in IdArgs
    /\ \/ /\ searchPc = "idle" /\ runs = 0
          /\ sanitized_search_term = None /\ search_results_file = None
          /\ ledgerExists = FALSE /\ ledger = <<>>
          /\ total = 0
       \/ /\ searchPc = "done" /\ runs = 1
          /\ sanitized_search_term = QueryKey /\ search_results_file = "set"
          /\ ledgerExists = TRUE /\ ledger = WriteLines(RemoteSlice(0, total))
          /\ total > 0
       \/ /\ searchPc = "early" /\ runs = 1
          /\ sanitized_search_term = QueryKey /\ search_results_file = None
          /\ ledgerExists = FALSE /\ ledger = <<>>
          /\ total = 0
    /\ restart = FALSE
    /\ all_ids = SplitLines(ledger) /\ retstart = Len(all_ids)
    /\ web_env = None /\ chunk_size = InitialChunkSize
    /\ consecutive_failures = 0
    /\ startEmpty = TRUE
    /\ kills = 0
    /\ retmax = DefaultRetmax /\ total_papers = total
    /\ reqs = <<>> /\ failStreak = 0
    /\ FetchIdle
    /\ NoConversion

FetchNext ==
    \/ \E a \in {caller_ids, <<>>}, r \in BOOLEAN : FetchRaise(a, r)
    \/ \E a \in {caller_ids, <<>>}, r \in BOOLEAN : FetchBegin(a, r)
    \/ FetchOneOk
    \/ FetchOneFail
    \/ FetchBatchEnd
    \/ FetchReturn
    \/ FetchKill
    \/ FetchKillInWrite

\* a fixed source directory and a converter object with no artifact yet
ConvertInit ==
    /\ docKind \in [Stems -> {"good", "unparsable", "unrenderable"}]
    /\ format \in Formats
    /\ ConvIdle
    /\ NoRetrieval
    /\ NoSanitize
    /\ NoJson
    /\ NoCopy
    /\ NoObject
    /\ NoPair

ConvertNext ==
    \/ \E t \in DocTypes, remove \in BOOLEAN : ConvertBegin(t, remove)
    \/ ConvertOne
    \/ ConvertReturn

\* get_sanitized_filename is called once on a name and its digest
SanitizeInit ==
    /\ filename \in Names
    /\ digest \in Digests
    /\ cache_key = <<>>
    /\ NoRetrieval
    /\ docKind = [st \in Stems |-> "good"]
    /\ format = "txt"
    /\ ConvIdle
    /\ NoJson
    /\ NoCopy
    /\ NoObject
    /\ NoPair

SanitizeNext == Sanitize

\* a json method is called once on an XmlToDoc object of a document
JsonInit ==
    /\ document \in Documents
    /\ json_call = "none"
    /\ paper_data = <<>>
    /\ NoSanitize
    /\ NoRetrieval
    /\ docKind = [st \in Stems |-> "good"]
    /\ format = "txt"
    /\ ConvIdle
    /\ NoCopy
    /\ NoObject
    /\ NoPair

JsonNext == \E call \in {"paper", "paper_without_metadata"} : ToJson(call)

\* copy_files is called once on a list of ids and a source directory that
\* holds the files of some of them
CopyInit ==
    /\ copy_arg \in CopyArgs
    /\ source_dir \in SUBSET CopyIds
    /\ dest_dir = {}
    /\ copy_ids = <<>> /\ copyIdx = 0 /\ copyPc = "idle"
    /\ NoObject
    /\ NoPair
    /\ NoSanitize
    /\ NoJson
    /\ NoRetrieval
    /\ docKind = [st \in Stems |-> "good"]
    /\ format = "txt"
    /\ ConvIdle

CopyNext == CopyBegin \/ CopyOne \/ CopyReturn

\* a new Entrez object, and a remote with a result count for every query
ObjInit ==
    /\ query_total \in [Queries -> 0..MaxQueryTotal]
    /\ search_dir = <<>>
    /\ ids_file = None
    /\ last_query = 0
    /\ NoRetrieval
    /\ docKind = [st \in Stems |-> "good"]
    /\ format = "txt"
    /\ ConvIdle
    /\ NoSanitize
    /\ NoJson
    /\ NoCopy
    /\ NoPair

ObjNext ==
    \/ \E q \in Queries, rs \in BOOLEAN, raises \in BOOLEAN :
          ObjSearch(q, rs, raises)
    \/ \E retry \in BOOLEAN : ObjFetchRaise(retry)
    \/ \E retry \in BOOLEAN : ObjFetch(retry)

\* two processes search one query into one ledger, on a fresh search
\* directory; no process is terminated
PairInit ==
    /\ total \in 0..MaxPairTotal
    /\ ledgerExists = FALSE /\ ledger = <<>>
    /\ searchPc = "idle"
    /\ restart = FALSE
    /\ all_ids = <<>> /\ retstart = 0
    /\ web_env = None /\ chunk_size = InitialChunkSize
    /\ consecutive_failures = 0
    /\ search_results_file = None
    /\ startEmpty = TRUE
    /\ sanitized_search_term = None
    /\ runs = 0 /\ kills = 0
    /\ retmax = DefaultRetmax /\ total_papers = 0
    /\ reqs = <<>> /\ failStreak = 0
    /\ caller_ids = <<>>
    /\ FetchIdle
    /\ NoConversion

PairNext ==
    \/ \E rs \in BOOLEAN : SearchBegin(rs, DefaultRetmax)
    \/ SearchCountError
    \/ SearchCount
    \/ SearchPageOk
    \/ SearchPageEmpty
    \/ SearchPageException
    \/ SearchReturn
    \/ Search2Begin
    \/ Search2Request
    \/ Search2Append
    \/ Search2Return

Init == SearchInit
Next ==
    SearchNext \/ FetchNext \/ ConvertNext \/ SanitizeNext \/ JsonNext
        \/ CopyNext \/ ObjNext \/ PairNext

SearchSpec == SearchInit /\ [][SearchNext]_vars
FetchSpec == FetchInit /\ [][FetchNext]_vars
ConvertSpec == ConvertInit /\ [][ConvertNext]_vars
SanitizeSpec == SanitizeInit /\ [][SanitizeNext]_vars
JsonSpec == JsonInit /\ [][JsonNext]_vars
CopySpec == CopyInit /\ [][CopyNext]_vars
ObjSpec == ObjInit /\ [][ObjNext]_vars
PairSpec == PairInit /\ [][PairNext]_vars
Spec == Init /\ [][Next]_vars

\* ------------------------------------------------------------ claims: search
FullLedger == WriteLines(RemoteSlice(0, total))

NoRepeat(seq) == \A i, j \in 1..Len(seq) : i # j => seq[i] # seq[j]

\* C1: a search that ran to completion from an empty ledger leaves a ledger
\* file of exactly total lines, whatever page sizes and paging strategies
\* were in effect on the way.
C1_LedgerHasTotalLines ==
    (searchPc = "done" /\ startEmpty) => Len(SplitLines(ledger)) = total

\* a completed run from an empty ledger that crossed the large offset with
\* an open session and a halved page size
C1_Witness ==
    /\ searchPc = "done" /\ startEmpty
    /\ total > LargeOffset
    /\ web_env = Token
    /\ chunk_size < InitialChunkSize
    /\ Len(SplitLines(ledger)) = total

\* C2: a search resumed with restart=False after the process was stopped
\* ends with the ledger of an uninterrupted run, the full remote list once.
C2_ResumeYieldsSameLedger ==
    (searchPc = "done" /\ kills > 0 /\ ~restart) => ledger = FullLedger

C17_RaisesAfterMaxRetries ==
    failStreak > max_retries => searchPc = "raised"

\* C18: no page request asks for more ids than the retmax the caller gave.
C18_PageRequestsWithinRetmax ==
    \A i \in 1..Len(reqs) :
        reqs[i].kind = "page" => reqs[i].retmax <= retmax

C20_ZeroTotalReturnsEmpty ==
    (/\ searchPc = "early" /\ total_papers = 0
     /\ reqs # <<>> /\ ~reqs[Len(reqs)].raised)
        => (reqs = <<CountRequest(FALSE)>> /\ all_ids = <<>>)

\* C22: with one writer and a remote that serves slices of one repeat-free
\* list, no id is on two lines of the ledger, in every reachable state.
C22_NoIdTwiceInLedger ==
    NoRepeat(SplitLines(ledger))

\* C28: a page request at a position at or past the large offset carries the
\* position, no usehistory and no session token, also when the run holds a
\* token.
C28_DirectPagingPastLargeOffset ==
    \A i \in 1..Len(reqs) :
        (reqs[i].kind = "page" /\ reqs[i].retstart >= LargeOffset)
            => (~reqs[i].usehistory /\ reqs[i].webenv = None)

\* a direct request has gone out past the large offset while the run holds
\* the token of its session
C28_Witness ==
    /\ searchPc = "loop" /\ web_env = Token
    /\ reqs # <<>> /\ reqs[1].kind = "page"
    /\ reqs[1].retstart >= LargeOffset
    /\ ~reqs[1].usehistory /\ reqs[1].webenv = None

\* an iteration ended without resetting the session state (lines 230, 267)
NoReset == ledger' # ledger \/ consecutive_failures' > 0

\* C29: an iteration below the large offset without a token asks for a new
\* session first; an answer with a token establishes it, and after an answer
\* without a token a direct request for the same position and size follows.
\* An iteration with a token sends one request that carries that token, and
\* the token stays until the session state is reset.
C29_SessionPagingBelowLargeOffset ==
    [][(searchPc = "loop" /\ searchPc' = "loop" /\ retstart < LargeOffset)
        => IF web_env = None
             THEN /\ reqs'[1].usehistory /\ reqs'[1].webenv = None
                  /\ reqs'[1].retstart = retstart
                  /\ (Len(reqs') = 1 /\ ~reqs'[1].raised /\ NoReset)
                        => web_env' = Token
                  /\ Len(reqs') = 2
                        => /\ ~reqs'[1].raised
                           /\ ~reqs'[2].usehistory /\ reqs'[2].webenv = None
                           /\ reqs'[2].retstart = retstart
                           /\ reqs'[2].retmax = reqs'[1].retmax
                           /\ web_env' = None
             ELSE /\ Len(reqs') = 1
                  /\ reqs'[1].webenv = web_env
                  /\ reqs'[1].retstart = retstart
                  /\ NoReset => web_env' = web_env]_vars

\* a page after the first has been asked for with the token of the session
C29_Witness ==
    /\ searchPc = "loop"
    /\ reqs # <<>> /\ reqs[1].kind = "page"
    /\ reqs[1].webenv = Token
    /\ reqs[1].retstart > 0 /\ reqs[1].retstart < LargeOffset
    /\ retstart > reqs[1].retstart

\* what a request asks for, but for the position
Strategy(r) == <<r.usehistory, r.webenv, r.retmax>>

\* the last iteration was the max_failures-th empty page in a row
AfterThirdEmpty ==
    /\ searchPc = "loop"
    /\ reqs # <<>> /\ reqs[1].kind = "page"
    /\ reqs[1].retstart = retstart
    /\ ~reqs[Len(reqs)].raised
    /\ consecutive_failures = 0

\* C30: the request that follows max_failures empty pages in a row at one
\* position differs from the requests of the failed iteration in strategy or
\* in page size, below the large offset as well as past it.
C30_RetryDiffersAfterThreeEmpty ==
    [][(AfterThirdEmpty /\ searchPc' = "loop")
        => \A i \in 1..Len(reqs) : Strategy(reqs'[1]) # Strategy(reqs[i])]_vars

\* an iteration of the loop ended in the handler of line 261
ExceptionStep ==
    /\ searchPc = "loop" /\ searchPc' = "loop"
    /\ reqs' # <<>> /\ reqs'[Len(reqs')].raised

\* C31: an iteration whose request raises leaves position and ledger alone,
\* counts in consecutive_failures, and at max_failures applies the reset and
\* the page-size change that an empty page applies at that position.
C31_ExceptionHandledAsEmptyPage ==
    [][ExceptionStep
        => /\ ledger' = ledger /\ retstart' = retstart
           /\ IF consecutive_failures + 1 >= max_failures
                THEN /\ consecutive_failures' = 0
                     /\ web_env' = None
                     /\ chunk_size' = ChunkAfterEmptyPages(retstart, chunk_size)
                ELSE /\ consecutive_failures' = consecutive_failures + 1
                     /\ chunk_size' = chunk_size]_vars

\* s is a prefix of t
IsPrefix(s, t) == Len(s) <= Len(t) /\ SubSeq(t, 1, Len(s)) = s

\* C32: in the paging loop the position is the number of lines of the
\* ledger; a page with ids appends exactly these ids and advances the
\* position by their number, a failed page changes neither, and a running
\* search only appends to the ledger.
C32_PositionIsLedgerLength ==
    [][searchPc' = "loop"
        => /\ retstart' = Len(SplitLines(ledger'))
           /\ searchPc = "loop"
                => /\ IsPrefix(ledger, ledger')
                   /\ \/ ledger' = ledger /\ retstart' = retstart
                      \/ \E n \in 1..chunk_size :
                            /\ retstart' = retstart + n
                            /\ ledger' = ledger
                                 \o WriteLines(RemoteSlice(retstart, n))]_vars

\* C33: a time.sleep lies between any two consecutive requests of a search
\* call: between the requests of one iteration, and between the last request
\* made and the first request of the next iteration.
C33_SleepBetweenRequests ==
    [][(searchPc = "loop" /\ searchPc' = "loop")
        => /\ reqs[Len(reqs)].sleep_follows
           /\ \A i \in 1..(Len(reqs') - 1) : reqs'[i].sleep_follows]_vars

\* C34: a search whose request failed, the count request included, does not
\* return before the ledger holds total identifiers: a search that read the
\* true count or whose count request raised returns with total lines.
C34_NoReturnShortOfTotal ==
    (/\ searchPc \in {"done", "early"}
     /\ reqs # <<>>
     /\ reqs[1].raised \/ total_papers = total)
        => Len(SplitLines(ledger)) >= total

\* C39: nothing keeps two searches of one query from appending the same
\* page.  As long as the second process has not entered the search, no
\* identifier is on the ledger twice and the ledger has at most total lines;
\* once it has, a ledger with more lines than total has repeated ids.
C39_NoDuplicateOnlyWithOneWriter ==
    LET lines == SplitLines(ledger)
    IN  /\ search2Pc = "idle" => (NoRepeat(lines) /\ Len(lines) <= total)
        /\ Len(lines) > total => ~NoRepeat(lines)

\* both processes have requested the page at position 0 and both have
\* appended it: the ledger holds an identifier twice and is longer than total
C39_Witness ==
    /\ search2Pc = "done" /\ searchPc = "done" /\ runs = 1
    /\ ~NoRepeat(SplitLines(ledger))
    /\ Len(SplitLines(ledger)) > total

\* ------------------------------------------------------------- claims: fetch
RequestedIds == [i \in 1..Len(requests) |-> requests[i].id]

\* C3: consecutive fetch calls with retry_failed=False on the same ids (no id
\* twice in the list) and the same directory request each id at most once
\* over all the calls.
C3_AtMostOneRequestPerId ==
    (sameArgs /\ ~retry_failed /\ kills = 0 /\ NoRepeat(ids))
        => \A id \in DOMAIN reqCount : reqCount[id] <= 1

\* the second call has returned without a request, after a first call over
\* two batches that left both a raw file and a failed id
C3_Witness ==
    /\ fetchPc = "done" /\ calls = 2
    /\ sameArgs /\ ~retry_failed /\ kills = 0 /\ NoRepeat(ids)
    /\ Len(ids) > batch_size
    /\ requests = <<>>
    /\ DOMAIN fetch_dir # {}
    /\ ReadFailedIds(failed_ids_file) # {}
    /\ \A id \in DOMAIN reqCount : reqCount[id] = 1

\* C4: after a fetch call with retry_failed=True has returned, no id it
\* fetched successfully is in the failure ledger file.
C4_RetriedIdLeavesLedger ==
    (fetchPc = "done" /\ retry_failed /\ NoRepeat(ids))
        => \A i \in 1..Len(requests) :
              requests[i].ok
                  => requests[i].id \notin ReadFailedIds(failed_ids_file)

\* C5: after every batch the failure ledger file holds exactly the failure
\* set in memory, the empty set included.
C5_LedgerEqualsFailureSetAfterBatch ==
    (fetchPc = "loop" /\ fetchIdx > 0 /\ BatchEndsAt(fetchIdx))
        => ReadFailedIds(failed_ids_file) = failed_ids

\* C9: every raw file that a run counts as downloaded has its complete
\* content, whenever the process is stopped.
C9_RawFilesComplete ==
    \A id \in downloaded_ids : fetch_dir[id] = "complete"

\* C10: within one fetch call the requests never outnumber the ids to fetch,
\* and when the call returns every id to fetch has been requested, in order,
\* whatever requests failed.
C10_EveryIdAttempted ==
    /\ fetchPc \in {"loop", "persist", "done"}
          => Len(requests) <= Len(ids_to_fetch)
    /\ fetchPc = "done" => RequestedIds = ids_to_fetch

\* a call has returned after a failed request that was followed by a
\* successful one in a later batch
C10_Witness ==
    /\ fetchPc = "done"
    /\ Len(requests) = MaxIds
    /\ RequestedIds = ids_to_fetch
    /\ ~requests[1].ok
    /\ requests[Len(requests)].ok

Range(seq) == {seq[i] : i \in 1..Len(seq)}

\* the failure ledger of the running call as it was when the call began
StartFailed ==
    IF failed_ids_file \in DOMAIN atStart.failed
      THEN atStart.failed[failed_ids_file] ELSE {}

\* C11: the ids a fetch call requests are, with retry_failed, the ids that were
\* in the failure ledger and had no raw file when the call began, and without
\* retry_failed the ids that had no raw file and were not in the failure
\* ledger: never an id outside that set, and all of it once the call returns.
C11_RequestedSet ==
    LET wanted == {id \in Range(ids) :
                     IF retry_failed
                       THEN id \in StartFailed /\ id \notin DOMAIN atStart.raw
                       ELSE id \notin DOMAIN atStart.raw /\ id \notin StartFailed}
    IN  /\ fetchPc \in {"loop", "persist", "done"}
              => Range(RequestedIds) \subseteq wanted
        /\ fetchPc = "done" => Range(RequestedIds) = wanted

\* a retrying call has returned having requested the ids of the failure
\* ledger and none of the other ids of the list, one of which had a raw file
C11_Witness ==
    /\ fetchPc = "done" /\ retry_failed
    /\ requests # <<>>
    /\ Range(RequestedIds) = StartFailed
    /\ \E id \in Range(ids) : id \in DOMAIN atStart.raw /\ id \notin StartFailed
    /\ \E id \in StartFailed : fetch_dir[id] = "complete"

\* C12: fetch sleeps after every ThrottleEvery ids processed, failed requests
\* counted too, so no more than ThrottleEvery requests go out without a sleep.
C12_ThrottledEveryTenRequests ==
    fetchPc \in {"loop", "persist", "done"} => sinceSleep <= ThrottleEvery

\* C13: for every id sequence, the value fetch returns is the number of raw
\* files that were absent when the call began and are present when it returns.
C13_ReturnsCountOfNewFiles ==
    fetchPc = "done" =>
        papers_processed = Cardinality(DOMAIN fetch_dir \ DOMAIN atStart.raw)

\* C14: a fetch call given no ids while no search has recorded a results file
\* raises, and it has then made no request and has left the directory of raw
\* files, the raw files and the failure ledgers as they were.
C14_NoIdsNoSearchFailsFast ==
    (/\ fetchPc \in {"loop", "persist", "done", "raised"}
     /\ atStart.given = <<>> /\ atStart.results = None)
        => /\ fetchPc = "raised"
           /\ requests = <<>>
           /\ fetch_dir_exists = atStart.dir
           /\ fetch_dir = atStart.raw
           /\ failed_files = atStart.failed

\* the call raised in a fresh process that found an id ledger and raw files
\* of a killed one on disk
C14_Witness ==
    /\ fetchPc = "raised"
    /\ atStart.given = <<>> /\ atStart.results = None
    /\ ledger # <<>> /\ fetch_dir # <<>>
    /\ requests = <<>>

\* the place of the first line of the ledger that reads id (0: no such line)
LedgerPos(id) ==
    LET lines == SplitLines(ledger)
        at == {k \in 1..Len(lines) : lines[k] = id}
    IN  IF at = {} THEN 0 ELSE CHOOSE k \in at : \A m \in at : k <= m

C36_EachIdRequestedOncePerCall ==
    fetchPc \in {"loop", "persist", "done", "killed"} => NoRepeat(RequestedIds)

\* C40: an id that was in the failure ledger file when a fetch call began is
\* missing from the file during or after the call only if the call runs with
\* retry_failed and has fetched the id successfully; without retry_failed
\* every id of the file stays in it.
C40_LedgerLosesOnlyRetriedSuccesses ==
    fetchPc \in {"loop", "persist", "done", "killed"}
        => \A id \in StartFailed :
              id \notin ReadFailedIds(failed_ids_file)
                  => /\ retry_failed
                     /\ \E i \in 1..Len(requests) :
                           requests[i].id = id /\ requests[i].ok

\* a retrying call has returned: one id of the ledger was fetched and has
\* left the file, another was requested, failed again and is still in it
C40_Witness ==
    /\ fetchPc = "done" /\ retry_failed
    /\ \E a, b \in StartFailed :
          /\ a \notin ReadFailedIds(failed_ids_file)
          /\ b \in ReadFailedIds(failed_ids_file)
          /\ \E i \in 1..Len(requests) : requests[i].id = b /\ ~requests[i].ok

\* -------------------------------------------------------- claims: conversion
AttemptedStems == [i \in 1..Len(attempts) |-> attempts[i].stem]

BackToBack ==
    convPc = "done" /\ convCalls >= 2 /\ sameConvArgs /\ ~remove_existing

\* C6 as stated: the second of two back-to-back convert_all calls with
\* remove_existing=False attempts no conversion (and so reports no error),
\* also when conversions failed in the first call.
C6_SecondRunConvertsNothing ==
    BackToBack => attempts = <<>>

\* C6 as amended: the second call attempts only documents whose conversion
\* failed in the first call, and none when no conversion failed there.
C6_SecondRunRetriesOnlyFailures ==
    BackToBack =>
        /\ \A i \in 1..Len(attempts) :
              \E j \in 1..Len(prevAttempts) :
                  /\ prevAttempts[j].stem = attempts[i].stem
                  /\ ~prevAttempts[j].ok
        /\ (\A j \in 1..Len(prevAttempts) : prevAttempts[j].ok)
              => attempts = <<>>

\* the second call has retried a failed document and skipped a converted one
C6_Witness ==
    /\ BackToBack /\ convCalls = 2
    /\ Len(prevAttempts) = NumDocs
    /\ \E j \in 1..Len(prevAttempts) : prevAttempts[j].ok
    /\ Len(attempts) = 1

\* C7: when convert_all has returned, no document whose conversion failed in
\* the call has an output file in the target directory.
C7_FailedItemLeavesNoFile ==
    convPc = "done" =>
        \A i \in 1..Len(attempts) :
            ~attempts[i].ok =>
                <<OutputDir(doc_type), attempts[i].stem, format>>
                    \notin DOMAIN out

\* C8: convert_all never attempts more than the pending files, and when it
\* returns it has attempted every pending file once, in order, whatever
\* conversions failed.
C8_EveryPendingAttemptedOnce ==
    /\ convPc \in {"loop", "done"} => Len(attempts) <= Len(pending_files)
    /\ convPc = "done" => AttemptedStems = pending_files

\* a call has returned after a failed conversion followed by a successful one
C8_Witness ==
    /\ convPc = "done"
    /\ Len(attempts) = NumDocs
    /\ AttemptedStems = pending_files
    /\ ~attempts[1].ok
    /\ attempts[Len(attempts)].ok
\* the stems that had no artifact of the format in the call's directory when
\* the call began
MissingAtStart ==
    {st \in Stems : <<OutputDir(doc_type), st, format>> \notin DOMAIN outAtStart}

\* C23: with remove_existing=False, convert_all attempts only source files
\* whose stem had no artifact of the format in the target directory, all of
\* them once it has returned, and every artifact that existed is still there
\* with its content.
C23_ConvertsOnlyMissing ==
    (convPc \in {"loop", "done"} /\ ~remove_existing)
        => /\ \A i \in 1..Len(attempts) : attempts[i].stem \in MissingAtStart
           /\ convPc = "done"
                 => {attempts[i].stem : i \in 1..Len(attempts)} = MissingAtStart
           /\ \A k \in DOMAIN outAtStart :
                 k \in DOMAIN out /\ out[k] = outAtStart[k]

\* a second call has attempted the one stem that was still missing and has
\* left the artifact of the first call as it was
C23_Witness ==
    /\ convPc = "done" /\ ~remove_existing /\ convCalls = 2
    /\ Len(attempts) = 1 /\ MissingAtStart = {attempts[1].stem}
    /\ \E k \in DOMAIN outAtStart : k[1] = OutputDir(doc_type) /\ k[3] = format
    /\ \A k \in DOMAIN outAtStart : out[k] = outAtStart[k]
\* C24: with remove_existing=True, convert_all starts its loop with no
\* artifact of the format in the target directory and with every source file
\* pending; and the second of two such calls in a row, with equal arguments,
\* returns with the artifacts, names and contents, that the first one left.
C24_OverwriteTwiceAsOnce ==
    /\ (convPc \in {"loop", "done"} /\ remove_existing)
          => pending_files = XmlFiles(NumDocs)
    /\ (convPc = "loop" /\ remove_existing /\ attempts = <<>>)
          => ExistingStems(OutputDir(doc_type), format) = {}
    /\ (convPc = "done" /\ remove_existing /\ sameConvArgs /\ convCalls >= 2)
          => out = outAtStart

\* the second overwriting call has returned; it attempted every source file
\* and the directory holds the artifacts of the first call again
C24_Witness ==
    /\ convPc = "done" /\ remove_existing /\ sameConvArgs /\ convCalls = 2
    /\ Len(attempts) = NumDocs
    /\ ExistingStems(OutputDir(doc_type), format) # {}
    /\ out = outAtStart

\* doc.py lines 457-483: "paper" and "paper_with_metadata" render alike
SameRendering(a, b) ==
    \/ a = b
    \/ {a, b} = {"paper", "paper_with_metadata"}

\* C35: when convert_all for a doc_type with remove_existing=False has
\* returned and no conversion of it failed, every source document (all of
\* them convertible) has an artifact rendered as that doc_type, whatever
\* calls came before.
C35_ArtifactOfKindForEveryDocument ==
    (/\ convPc = "done" /\ ~remove_existing
     /\ \A st \in Stems : docKind[st] = "good")
        => \A st \in Stems :
              LET key == <<OutputDir(doc_type), st, format>>
              IN  key \in DOMAIN out /\ SameRendering(out[key], doc_type)

\* ------------------------------------------------------- claims: functions
\* [A-Za-z0-9_]
WordChars ==
    {"A", "B", "C", "D", "E", "F", "G", "H", "I", "J", "K", "L", "M", "N",
     "O", "P", "Q", "R", "S", "T", "U", "V", "W", "X", "Y", "Z", "a", "b",
     "c", "d", "e", "f", "g", "h", "i", "j", "k", "l", "m", "n", "o", "p",
     "q", "r", "s", "t", "u", "v", "w", "x", "y", "z", "0", "1", "2", "3",
     "4", "5", "6", "7", "8", "9", "_"}

\* C25: the cache key get_sanitized_filename returns holds only characters of
\* [A-Za-z0-9_], whatever the name.
C25_KeyHasOnlyWordChars ==
    \A i \in 1..Len(cache_key) : cache_key[i] \in WordChars

\* C26: the cache key has at most max_filename_length + 1 + HashLen
\* characters: a term of at most max_filename_length characters, one
\* underscore and the HashLen characters of the hash.
C26_KeyLength ==
    cache_key # <<>> =>
        /\ Len(cache_key) <= max_filename_length + 1 + HashLen
        /\ Len(cache_key) >= 1 + HashLen
        /\ cache_key[Len(cache_key) - HashLen] = "_"
        /\ SubSeq(cache_key, Len(cache_key) - HashLen + 1, Len(cache_key))
              = digest

\* a name whose sanitized term was longer than max_filename_length has a key
\* of the greatest length
C26_Witness ==
    /\ Len(cache_key) = max_filename_length + 1 + HashLen
    /\ Len(Strip(ReplaceAll(filename, 1))) > max_filename_length
\* ------------------------------------------- claims: several queries
\* C38: a fetch call without ids on an Entrez object reads the ledger of the
\* query searched last on the object, and names its failure ledger after
\* that query, also when that search returned early.
C38_FetchReadsLastSearchedLedger ==
    (fetchPc = "done" /\ last_query # 0)
        => /\ failed_ids_file = TermKey(last_query)
           /\ ids_file = LedgerPath(TermKey(last_query))

\* ------------------------------------------------------ claims: copy_files
\* C37: when copy_files has returned, the file of every id of the list whose
\* source file exists has been copied, and the list holds exactly the ids
\* whose source file exists, in their order.
C37_CopiesAndPrunesExactly ==
    copyPc = "done"
        => /\ dest_dir = {id \in Range(copy_arg) : id \in source_dir}
           /\ copy_ids = SelectSeq(copy_arg, LAMBDA id : id \in source_dir)

\* --------------------------------------------------------- claims: to json
\* the document of the example: title T1, one author A B without
\* affiliation, abstract Abs., one section Intro with Hello., no reference
ExampleDocument ==
    [article_title |-> "T1",
     contribs |-> <<[name |-> <<[given |-> "A", surname |-> "B"]>>,
                     affs |-> <<>>, corresp_email |-> None, email |-> None,
                     orcid |-> None]>>,
     abstract |-> <<"Abs.">>,
     secs |-> <<[title |-> "Intro", ps |-> <<"Hello.">>]>>,
     refs |-> <<>>]

\* the object of the example, but for its authors
ExampleJson(authors) ==
    ("title" :> "T1") @@ ("journal" :> "") @@ ("publication_date" :> "")
      @@ ("pmc_id" :> "") @@ ("authors" :> authors)
      @@ ("abstract" :> <<"Abs.">>) @@ ("body" :> ("Intro" :> <<"Hello.">>))
      @@ ("references" :> <<>>)

ExampleCalled == document = ExampleDocument /\ json_call = "paper"

\* C27 as stated: for the example document paper_to_json returns the object
\* of the example, whose one author object has the keys name and
\* affiliations and no other.
C27_ExampleAuthorHasTwoKeys ==
    ExampleCalled =>
        paper_data = ExampleJson(<<("name" :> <<"A", "B">>)
                                     @@ ("affiliations" :> <<>>)>>)

\* C27 as amended: the author object also has email (null) and
\* is_corresponding (false); all other values are those of the example.
C27_ExampleAuthorHasFourKeys ==
    ExampleCalled =>
        paper_data = ExampleJson(<<("name" :> <<"A", "B">>)
                                     @@ ("affiliations" :> <<>>)
                                     @@ ("email" :> None)
                                     @@ ("is_corresponding" :> FALSE)>>)

\* paper_to_json has returned for the example document
C27_Witness ==
    /\ ExampleCalled
    /\ DOMAIN paper_data["authors"][1]
          = {"name", "affiliations", "email", "is_corresponding"}
====
